---- MODULE Spec2Model ----
(***************************************************************************)
(* A model of the relayer node of RJ0088/renegade-fi: the network order    *)
(* book (core/src/state/orderbook.rs), the handshake executor and          *)
(* scheduler (core/src/handshake/manager.rs), the on-chain event listener  *)
(* (core/src/chain_events/listener.rs) and the network manager's pub-sub   *)
(* dispatch (core/src/network_manager/manager.rs).                         *)
(*                                                                         *)
(* The specifications share the variables:                                 *)
(*   SpecBook  the public operations of NetworkOrderBook, called in any    *)
(*             order with any arguments, from the empty book;              *)
(*   Spec      the node: executor tasks, scheduler, listener and the       *)
(*             network around them, over the same order book;              *)
(*   SpecLive  Spec with the node's own workers scheduled fairly;          *)
(*   SpecPeerSilent  the node with peers that never send a message;        *)
(*   SpecCancel  that node with the coordinator's cancel signal;           *)
(*   SpecPeerRejects  that node with peers that answer with rejections;    *)
(*   SpecListener  the polls of the chain event listener alone;            *)
(*   SpecPoll  the listener's polls page by page, scheduled fairly;        *)
(*   SpecNetwork  the network manager's dispatch of pub-sub messages;      *)
(*   SpecMatch  the match circuit applied to every pair of small orders.   *)
(***************************************************************************)
EXTENDS Naturals, FiniteSets, Sequences, TLC

\* ------------------------------------------------------------------------
\* Universe of the model
\* ------------------------------------------------------------------------

\* Order identifiers (OrderIdentifier = Uuid); two orders make one pair.
Orders == {"A", "B"}

\* Wallet match nullifiers (Nullifier = Scalar).
Nullifiers == {1, 2}

\* The Merkle tree of the contract: the heights above the leaves, and the
\* blocks and root changes the listener's polls are followed through.
TreeHeight == 2
MaxBlock == 1
MaxMerkleEvents == 2

\* The events the contract emits over a run, and the events of one page of
\* get_events (the chunk size the listener asks for, 100 in the sources).
MaxEvents == 4
EVENT_CHUNK_SIZE == 2

\* The prices and the mints of the orders given to the match circuit.
MaxPrice == 2
MaxMint == 2

\* The pub-sub messages the network manager's dispatch is followed through.
MaxPubsub == 2

\* MerkleTreeCoords::new(height, index) of the internal nodes, and the
\* HashMap<MerkleTreeCoords, Scalar> values handle_root_changed composes.
UpdatedNodes ==
    UNION {[d -> {0, 1}] : d \in SUBSET ((1..TreeHeight) \X {0, 1})}

\* MerkleAuthenticationPath::compute_authentication_path_coords
\* (state/wallet.rs is not among the sources): the sibling of the wallet's
\* leaf branch at every height; the wallet sits in leaf 0, so its sibling at
\* each height has index 1.
compute_authentication_path_coords == [i \in 1..TreeHeight |-> <<i, 1>>]

\* Option<ValidCommitmentsBundle>: None is NoProof, Some(proof) is the
\* nullifier of the proof's statement (proof.statement.nullifier), the one
\* field of the bundle the order book reads.
NoProof == 0

\* NetworkOrderState; Matched carries by_local_node in its own field.
OrderStates == {"Received", "Verified", "Matched", "Cancelled", "Pruned"}

VARIABLES
    \* NetworkOrderBook
    order_map,            \* OrderIdentifier -> NetworkOrder (partial)
    orders_by_nullifier,  \* Nullifier -> set of OrderIdentifier
    local_orders,         \* set of locally managed order ids
    verified_orders,      \* set of order ids in the Verified state
    poisoned,             \* orders whose RwLock a panicking writer poisoned
    \* HandshakeExecutor
    handshake_cache,        \* unordered pair -> cache entry
    handshake_state_index,  \* request id -> handshake record (partial)
    job_channel,            \* queue of HandshakeExecutionJob
    tasks,                  \* the spawned handle_handshake_job tasks
    network_channel,        \* every GossipOutbound sent so far
    system_bus,             \* every handshake event published so far
    \* the network manager and the chain
    brokered,               \* BrokerMpcNet directives not yet set up
    \* OnChainEventListenerExecutor
    listener,               \* position inside handle_nullifier_spent
    merkle_last_consistent_block, \* latest block with Merkle state applied
    path_siblings,          \* a held wallet's merkle_proof.path_siblings
    pagination_token,       \* the event pagination token
    chain_events,           \* the contract's events, in emission order
    \* history
    njobs,                  \* jobs enqueued so far
    spent_on_chain,         \* nullifiers the chain reported spent
    nullifier_handled,      \* nullifiers handle_nullifier_spent returned for
    shootdown_done,         \* nullifiers whose MpcShootdown job has run
    mpc_started,            \* request ids whose MPC was started
    matched_by_handshake,   \* orders a handshake moved to Matched
    evicted,                \* pairs whose cache entry was evicted
    merkle_applied,         \* the root changes handle_root_changed applied
    events_handled,         \* the events handle_event returned Ok for
    match_orders,           \* <<order1, order2>> given to compute_match
    match_result,           \* << >>, or the one result of compute_match
    \* the coordinator's cancel channel and the loops that watch it
    cancel_sent,            \* the cancel signal was sent
    stopped,                \* the loops that returned on the signal
    ticks_after_cancel,     \* loop -> iterations run after the signal
    \* NetworkManager
    gossip_work_queue,      \* the jobs forwarded to the gossip server
    pubsub_handled          \* the pub-sub messages handled so far

bookVars == <<order_map, orders_by_nullifier, local_orders, verified_orders,
              poisoned>>

execVars == <<handshake_cache, handshake_state_index, job_channel, tasks,
              network_channel, system_bus, brokered>>

execVars_but_tasks == <<handshake_cache, handshake_state_index, job_channel,
                        network_channel, system_bus, brokered>>

listenerVars == <<listener, spent_on_chain, nullifier_handled,
                  merkle_last_consistent_block, path_siblings, merkle_applied,
                  pagination_token, chain_events, events_handled>>

cancelVars == <<cancel_sent, stopped, ticks_after_cancel>>

histVars == <<njobs, shootdown_done, mpc_started, matched_by_handshake, evicted>>

netVars == <<gossip_work_queue, pubsub_handled>>

matchVars == <<match_orders, match_result>>

vars == <<bookVars, execVars, listenerVars, cancelVars, netVars, matchVars, histVars>>

\* ------------------------------------------------------------------------
\* NetworkOrder
\* ------------------------------------------------------------------------

\* NetworkOrder::new: an order in the Received state, no proof, no witness.
NetworkOrder_new(match_nullifier, local) ==
    [ local                |-> local,
      match_nullifier      |-> match_nullifier,
      state                |-> "Received",
      by_local_node        |-> FALSE,
      valid_commit_proof   |-> NoProof,
      valid_commit_witness |-> FALSE ]

\* Mutant: the proof is used for the nullifier but not stored on the order.
attach_commitment_proof_dropped(order, proof) ==
    [order EXCEPT !.state = "Verified",
                  !.by_local_node = FALSE,
                  !.match_nullifier = proof]

\* NetworkOrder::attach_commitment_proof: no check of the current state.
attach_commitment_proof(order, proof) ==
    [order EXCEPT !.state = "Verified",
                  !.by_local_node = FALSE,
                  !.match_nullifier = proof,
                  !.valid_commit_proof = proof]

\* NetworkOrder::transition_received: the proof stays on the order.
order_transition_received(order) ==
    [order EXCEPT !.state = "Received", !.by_local_node = FALSE]

\* The assert_eq! of NetworkOrder::transition_verified.
order_transition_verified_ok(order) == order.state = "Received"

\* NetworkOrder::transition_verified, past its assertion.
order_transition_verified(order, proof) == attach_commitment_proof(order, proof)

\* The assert_eq! of NetworkOrder::transition_matched.
order_transition_matched_ok(order) == order.state = "Verified"

\* Mutant: the state is left as it was.
order_transition_matched_unset(order, by_local_node) ==
    [order EXCEPT !.by_local_node = by_local_node]

\* NetworkOrder::transition_matched, past its assertion.
order_transition_matched(order, by_local_node) ==
    [order EXCEPT !.state = "Matched", !.by_local_node = by_local_node]

\* NetworkOrder::transition_cancelled
order_transition_cancelled(order) ==
    [order EXCEPT !.state = "Cancelled", !.by_local_node = FALSE]

\* NetworkOrder::transition_pruned
order_transition_pruned(order) ==
    [order EXCEPT !.state = "Pruned", !.by_local_node = FALSE]

\* ------------------------------------------------------------------------
\* NetworkOrderBook: each method as a function of the book it is called on.
\* A book value carries the five fields, `panic`, set when the call
\* unwound (a failed assert_eq!, or expect() on a poisoned order lock), and
\* `published`, the OrderStateChange events the call put on the system bus.
\* ------------------------------------------------------------------------

\* The book held in the variables.
Book ==
    [ order_map           |-> order_map,
      orders_by_nullifier |-> orders_by_nullifier,
      local_orders        |-> local_orders,
      verified_orders     |-> verified_orders,
      poisoned            |-> poisoned,
      panic               |-> FALSE,
      published           |-> << >> ]

\* NetworkOrderBook::new
Book_new ==
    [ order_map           |-> << >>,
      orders_by_nullifier |-> [n \in Nullifiers |-> {}],
      local_orders        |-> {},
      verified_orders     |-> {},
      poisoned            |-> {},
      panic               |-> FALSE,
      published           |-> << >> ]

\* HashMap::insert on order_map
map_insert(m, id, order) ==
    [x \in (DOMAIN m) \cup {id} |-> IF x = id THEN order ELSE m[x]]

\* contains_order
contains_order(b, id) == id \in DOMAIN b.order_map

\* read_order / write_order: None for an unknown id; expect() panics when the
\* order's lock is poisoned.
lock_panics(b, id) == contains_order(b, id) /\ id \in b.poisoned

\* add_verified_order
add_verified_order(b, id) ==
    [b EXCEPT !.verified_orders = @ \cup {id}]

\* remove_verified_order
remove_verified_order(b, id) ==
    [b EXCEPT !.verified_orders = @ \ {id}]

\* write_nullifier_order_set(n).insert(id)
nullifier_set_insert(b, n, id) ==
    [b EXCEPT !.orders_by_nullifier[n] = @ \cup {id}]

\* system_bus.publish(ORDER_STATE_CHANGE_TOPIC, OrderStateChange { order_id,
\* prev_state, new_state: order.state }) at the end of a transition.
publish_state_change(b, id, prev_state) ==
    [b EXCEPT !.published =
        Append(@, [ order_id   |-> id,
                    prev_state |-> prev_state,
                    new_state  |-> b.order_map[id].state ])]

\* add_order: no check whether the id is already indexed; the entry, and with
\* it the order's lock, is replaced.
add_order(b, id, order) ==
    LET b1 == IF order.local THEN [b EXCEPT !.local_orders = @ \cup {id}] ELSE b
        b2 == IF order.state = "Verified" THEN add_verified_order(b1, id) ELSE b1
        b3 == nullifier_set_insert(b2, order.match_nullifier, id)
    IN  [b3 EXCEPT !.order_map = map_insert(@, id, order),
                   !.poisoned = @ \ {id}]

\* update_order_validity_proof: indexes the proof's nullifier, attaches the
\* proof if the order is known, and adds the id to the verified set in
\* either case.
update_order_validity_proof(b, id, proof) ==
    LET b1 == nullifier_set_insert(b, proof, id)
    IN  IF lock_panics(b1, id) THEN [b1 EXCEPT !.panic = TRUE]
        ELSE LET b2 == IF contains_order(b1, id)
                       THEN [b1 EXCEPT !.order_map[id] = attach_commitment_proof(@, proof)]
                       ELSE b1
             IN  add_verified_order(b2, id)

\* attach_validity_proof_witness: no check of order.local.
attach_validity_proof_witness(b, id) ==
    IF lock_panics(b, id) THEN [b EXCEPT !.panic = TRUE]
    ELSE IF contains_order(b, id)
         THEN [b EXCEPT !.order_map[id].valid_commit_witness = TRUE]
         ELSE b

\* transition_order_received
transition_order_received(b, id) ==
    IF lock_panics(b, id) THEN [b EXCEPT !.panic = TRUE]
    ELSE IF contains_order(b, id)
         THEN publish_state_change(
                  remove_verified_order(
                      [b EXCEPT !.order_map[id] = order_transition_received(@)], id),
                  id, b.order_map[id].state)
         ELSE b

\* transition_verified: the assertion fails with the order's write guard
\* held, which poisons the lock.
transition_verified(b, id, proof) ==
    IF lock_panics(b, id) THEN [b EXCEPT !.panic = TRUE]
    ELSE IF contains_order(b, id)
         THEN IF order_transition_verified_ok(b.order_map[id])
              THEN publish_state_change(
                       add_verified_order(
                           [b EXCEPT !.order_map[id] =
                                         order_transition_verified(@, proof)], id),
                       id, b.order_map[id].state)
              ELSE [b EXCEPT !.panic = TRUE, !.poisoned = @ \cup {id}]
         ELSE b

\* transition_matched: as transition_verified, the failed assertion poisons
\* the order's lock.
transition_matched(b, id, by_local_node) ==
    IF lock_panics(b, id) THEN [b EXCEPT !.panic = TRUE]
    ELSE IF contains_order(b, id)
         THEN IF order_transition_matched_ok(b.order_map[id])
              THEN publish_state_change(
                       remove_verified_order(
                           [b EXCEPT !.order_map[id] =
                                         order_transition_matched(@, by_local_node)], id),
                       id, b.order_map[id].state)
              ELSE [b EXCEPT !.panic = TRUE, !.poisoned = @ \cup {id}]
         ELSE b

\* transition_cancelled: from any state.
transition_cancelled(b, id) ==
    IF lock_panics(b, id) THEN [b EXCEPT !.panic = TRUE]
    ELSE IF contains_order(b, id)
         THEN publish_state_change(
                  remove_verified_order(
                      [b EXCEPT !.order_map[id] = order_transition_cancelled(@)], id),
                  id, b.order_map[id].state)
         ELSE b

\* transition_pruned: from any state.
transition_pruned(b, id) ==
    IF lock_panics(b, id) THEN [b EXCEPT !.panic = TRUE]
    ELSE IF contains_order(b, id)
         THEN publish_state_change(
                  remove_verified_order(
                      [b EXCEPT !.order_map[id] = order_transition_pruned(@)], id),
                  id, b.order_map[id].state)
         ELSE b

\* ---- getters ----

\* has_validity_proof
has_validity_proof(b, id) ==
    contains_order(b, id) /\ b.order_map[id].valid_commit_proof # NoProof

\* has_validity_witness
has_validity_witness(b, id) ==
    contains_order(b, id) /\ b.order_map[id].valid_commit_witness

\* order_ready_for_handshake: proof and witness held; the state is not read.
order_ready_for_handshake(b, id) ==
    has_validity_proof(b, id) /\ has_validity_witness(b, id)

\* get_local_scheduleable_orders
get_local_scheduleable_orders(b) ==
    {id \in b.verified_orders \cap b.local_orders : has_validity_witness(b, id)}

\* get_nonlocal_verified_orders
get_nonlocal_verified_orders(b) == b.verified_orders \ b.local_orders

\* The fields of NetworkOrderBook::new.
SetBookInit ==
    /\ order_map = Book_new.order_map
    /\ orders_by_nullifier = Book_new.orders_by_nullifier
    /\ local_orders = Book_new.local_orders
    /\ verified_orders = Book_new.verified_orders
    /\ poisoned = Book_new.poisoned

\* The book's fields take the value of b.
SetBook(b) ==
    /\ order_map' = b.order_map
    /\ orders_by_nullifier' = b.orders_by_nullifier
    /\ local_orders' = b.local_orders
    /\ verified_orders' = b.verified_orders
    /\ poisoned' = b.poisoned

\* ------------------------------------------------------------------------
\* HandshakeCache (handshake/handshake_cache.rs is not among the sources;
\* modelled from the cache contract: contains / mark_completed /
\* mark_invisible over the unordered pair).  An entry is Absent, Invisible
\* (InvisibleUntil(T) with now < T) or Completed; an InvisibleUntil(T) whose
\* T has passed answers every call as an absent entry does and is held as
\* Absent.  The capacity HANDSHAKE_CACHE_SIZE = 500 is never reached by the
\* pairs of this universe alone; the pairs of other orders fill the cache
\* and evict an entry in the step EvictLeastRecentlyUsed.
\* ------------------------------------------------------------------------

\* Mutant: the key keeps the order of its arguments.
cache_key_ordered(a, b) == <<a, b>>

\* The key of the pair: unordered.
cache_key(a, b) == {a, b}

\* The ordered pairs of distinct orders, as messages and jobs carry them.
OrderPairs == {p \in Orders \X Orders : p[1] # p[2]}

\* All keys over the universe of orders.
Pairs == {cache_key(p[1], p[2]) : p \in OrderPairs}

\* HandshakeCache::new
HandshakeCache_new == [k \in Pairs |-> "Absent"]

\* contains(a, b)
cache_contains(c, a, b) == c[cache_key(a, b)] \in {"Invisible", "Completed"}

\* mark_completed(a, b): idempotent, upgrades an invisible entry.
mark_completed(c, a, b) == [c EXCEPT ![cache_key(a, b)] = "Completed"]

\* mark_invisible(a, b, duration): refreshes the expiry; no-op on Completed.
mark_invisible(c, a, b) ==
    [c EXCEPT ![cache_key(a, b)] = IF @ = "Completed" THEN @ ELSE "Invisible"]

\* ------------------------------------------------------------------------
\* HandshakeStateIndex (handshake/state.rs is not among the sources;
\* modelled from the state index contract).
\* ------------------------------------------------------------------------

\* Handshake request ids (Uuid).
ReqIds == {1, 2}

\* HandshakeStateIndex::new
HandshakeStateIndex_new == << >>

\* new_handshake: fails (FALSE) if the request id exists or an order is
\* not in the order book.
new_handshake_ok(idx, b, request_id, peer_order_id, local_order_id) ==
    /\ request_id \notin DOMAIN idx
    /\ contains_order(b, peer_order_id)
    /\ contains_order(b, local_order_id)

\* new_handshake: the record, phase Proposed, with the nullifiers of both
\* orders.
new_handshake(idx, b, request_id, peer_order_id, local_order_id) ==
    [r \in (DOMAIN idx) \cup {request_id} |->
        IF r = request_id
        THEN [ local_order_id |-> local_order_id,
               peer_order_id  |-> peer_order_id,
               phase          |-> "Proposed",
               nullifiers     |-> { b.order_map[local_order_id].match_nullifier,
                                    b.order_map[peer_order_id].match_nullifier },
               cancelled      |-> FALSE ]
        ELSE idx[r]]

\* advance(req, phase): monotone; a record that is Completed or Aborted
\* stays as it is.
advance(idx, request_id, phase) ==
    IF request_id \in DOMAIN idx /\ idx[request_id].phase \notin {"Completed", "Aborted"}
    THEN [idx EXCEPT ![request_id].phase = phase]
    ELSE idx

\* completed(req)
completed(idx, request_id) == advance(idx, request_id, "Completed")

\* shootdown_nullifier(n): every record that references n goes to Aborted
\* and its cancel token is triggered.
shootdown_nullifier(idx, n) ==
    [r \in DOMAIN idx |->
        IF n \in idx[r].nullifiers /\ idx[r].phase \notin {"Completed", "Aborted"}
        THEN [idx[r] EXCEPT !.phase = "Aborted", !.cancelled = TRUE]
        ELSE idx[r]]

\* ------------------------------------------------------------------------
\* Jobs and tasks of the handshake executor
\* ------------------------------------------------------------------------

\* The jobs that peers and the scheduler enqueue over a run of the model,
\* the jobs waiting in the channel at a time, and the tasks in flight at a
\* time.
MaxJobs == 2
MaxQueue == 1
MaxTasks == 2

\* Placeholders for the fields a job kind does not carry.
NoOrder == "-"
NoReason == "-"
NoRequest == 0
NoNullifier == 0

\* MatchRejectionReason
RejectionReasons == {"NoValidityProof", "LocalOrderNotReady", "Cached"}

\* A HandshakeExecutionJob.  ProposeMatchCandidate: order1 = peer_order (the
\* receiver's my_order), order2 = sender_order.  PerformHandshake: order1 =
\* the peer's order.  `cached_on_arrival` records for an inbound proposal
\* whether the cache had marked the pair Completed before the job was
\* enqueued, `handled_on_arrival` the nullifiers the listener had handled.
Job(kind, request_id, order1, order2, reason, nullifier) ==
    [ kind       |-> kind,
      request_id |-> request_id,
      order1     |-> order1,
      order2     |-> order2,
      reason     |-> reason,
      nullifier  |-> nullifier,
      cached_on_arrival |->
          /\ kind = "ProposeMatchCandidate"
          /\ \/ handshake_cache[cache_key(order1, order2)] = "Completed"
             \/ cache_key(order1, order2) \in evicted,
      handled_on_arrival |->
          IF kind \in {"ProposeMatchCandidate", "PerformHandshake"}
          THEN nullifier_handled ELSE {} ]

\* The first position of each handler.
FirstPc(kind) ==
    CASE kind = "PerformHandshake"      -> "choose_match_proposal"
      [] kind = "ProposeMatchCandidate" -> "check_peer_order"
      [] kind = "RejectMatchCandidate"  -> "handle_proposal_rejection"
      [] kind = "ExecuteMatch"          -> "cache_result"
      [] kind = "CacheEntry"            -> "mark_completed"
      [] kind = "PeerMatchInProgress"   -> "mark_invisible"
      [] kind = "MpcNetSetup"           -> "get_state"
      [] kind = "MpcShootdown"          -> "shootdown"

\* The jobs waiting or being handled; the model sends no job a second time
\* while the first is in flight.
InFlightJobs ==
    {job_channel[i] : i \in 1..Len(job_channel)} \cup {t.origin : t \in tasks}

\* UnboundedSender::send on the executor's job channel.
SendJob(job) ==
    /\ Len(job_channel) < MaxQueue
    /\ job \notin InFlightJobs
    /\ job_channel' = Append(job_channel, job)

\* A job from a peer's message or from the scheduler.
Enqueue(job) ==
    /\ njobs < MaxJobs
    /\ njobs' = njobs + 1
    /\ SendJob(job)

\* The task moves to position pc.
Goto(t, pc) == tasks' = (tasks \ {t}) \cup {[t EXCEPT !.pc = pc]}

\* The task returns (Ok or Err) or unwinds from a panic.
Return(t) == tasks' = tasks \ {t}

\* network_channel.send(msg); the network manager's executor_loop has
\* forwarded what was sent before.
Send(msgs) == network_channel' = msgs

\* The loops that are handed the coordinator's cancel channel.
Loops == {"scheduler", "executor", "listener"}

\* The iterations of a loop after the cancel signal are counted up to here.
MaxTicksAfterCancel == 2

\* One iteration of loop l, counted when the cancel signal was sent before.
Tick(l) ==
    ticks_after_cancel' =
        IF cancel_sent
        THEN [ticks_after_cancel EXCEPT
                  ![l] = IF @ < MaxTicksAfterCancel THEN @ + 1 ELSE @]
        ELSE ticks_after_cancel

\* HandshakeExecutor::new and the workers around it.
InitNode ==
    /\ handshake_cache = HandshakeCache_new
    /\ handshake_state_index = HandshakeStateIndex_new
    /\ job_channel = << >>
    /\ tasks = {}
    /\ network_channel = {}
    /\ system_bus = {}
    /\ brokered = {}
    /\ listener = [pc |-> "poll", nullifier |-> NoNullifier]
    /\ njobs = 0
    /\ spent_on_chain = {}
    /\ nullifier_handled = {}
    /\ merkle_last_consistent_block = 0
    /\ path_siblings = [i \in 1..TreeHeight |-> 0]
    /\ merkle_applied = << >>
    /\ pagination_token = 0
    /\ chain_events = << >>
    /\ events_handled = {}
    /\ shootdown_done = {}
    /\ mpc_started = {}
    /\ matched_by_handshake = {}
    /\ evicted = {}
    /\ cancel_sent = FALSE
    /\ stopped = {}
    /\ ticks_after_cancel = [l \in Loops |-> 0]
    /\ gossip_work_queue = << >>
    /\ pubsub_handled = << >>

\* HandshakeExecutor::execution_loop: the next job is received and a task
\* is spawned for it.  After the cancel signal both branches of the select!
\* are ready while a job waits, and either is taken.
execution_loop ==
    /\ "executor" \notin stopped
    /\ Tick("executor")
    /\ job_channel # << >>
    /\ Cardinality(tasks) < MaxTasks
    /\ LET job == Head(job_channel)
       IN  tasks' = tasks \cup {[ job |-> job, origin |-> job,
                                  pc |-> FirstPc(job.kind),
                                  local_order_id |-> NoOrder ]}
    /\ job_channel' = Tail(job_channel)
    /\ UNCHANGED <<bookVars, handshake_cache, handshake_state_index,
                   network_channel, system_bus, brokered, listenerVars,
                   cancel_sent, stopped, netVars, matchVars, histVars>>

\* ------------------------------------------------------------------------
\* Outbound messages (GossipOutbound) and bus events
\* ------------------------------------------------------------------------

Msg(type, request_id, order1, order2, detail) ==
    [ type |-> type, request_id |-> request_id,
      order1 |-> order1, order2 |-> order2, detail |-> detail ]

\* GossipRequest::Handshake { ProposeMatchCandidate { sender_order, peer_order } }
ProposeMsg(request_id, sender_order, peer_order) ==
    Msg("ProposeMatchCandidate", request_id, sender_order, peer_order, NoReason)

\* reject_match_proposal: RejectMatchCandidate { peer_order, sender_order, reason }
RejectMsg(request_id, peer_order, local_order, reason) ==
    Msg("RejectMatchCandidate", request_id, peer_order, local_order, reason)

\* HandshakeMessage::ExecuteMatch { order1, order2 }
ExecuteMatchMsg(request_id, order1, order2) ==
    Msg("ExecuteMatch", request_id, order1, order2, NoReason)

\* HandshakeMessage::Ack
AckMsg(request_id) == Msg("Ack", request_id, NoOrder, NoOrder, NoReason)

\* ManagerControlDirective::BrokerMpcNet { request_id, local_role }
BrokerMpcNetMsg(request_id, local_role) ==
    Msg("BrokerMpcNet", request_id, NoOrder, NoOrder, local_role)

\* ClusterManagementMessage::MatchInProgress(order1, order2)
MatchInProgressMsg(order1, order2) ==
    Msg("MatchInProgress", NoRequest, order1, order2, NoReason)

\* ClusterManagementMessage::CacheSync(order1, order2)
CacheSyncMsg(order1, order2) ==
    Msg("CacheSync", NoRequest, order1, order2, NoReason)

\* SystemBusMessage::HandshakeInProgress / HandshakeCompleted
BusEvent(type, local_order_id, peer_order_id) ==
    [ type |-> type, local_order_id |-> local_order_id,
      peer_order_id |-> peer_order_id ]

\* ------------------------------------------------------------------------
\* handle_propose_match_candidate (job.order1 = my_order, job.order2 =
\* sender_order), one action per access to a shared store.
\* ------------------------------------------------------------------------

IsAt(t, kind, pc) == t.job.kind = kind /\ t.pc = pc

\* The locks of shared stores that task t holds while it is suspended at
\* its position: the guard of a store is dropped before the next store is
\* locked everywhere but in choose_match_proposal.
HeldLocks(t) ==
    IF IsAt(t, "PerformHandshake", "read_order_book")
    THEN {"handshake_cache"}
    ELSE {}

\* handshake_cache.write().await is granted when no task holds the cache.
CacheWriteLock == \A u \in tasks : "handshake_cache" \notin HeldLocks(u)

\* get_order_info(sender_order): the peer's order must be Verified locally.
ProposeCheckPeerOrder(t) ==
    /\ IsAt(t, "ProposeMatchCandidate", "check_peer_order")
    /\ LET my_order == t.job.order1
           sender_order == t.job.order2
       IN  IF lock_panics(Book, sender_order)
           THEN Return(t) /\ UNCHANGED network_channel
           ELSE IF \/ ~contains_order(Book, sender_order)
                   \/ order_map[sender_order].state # "Verified"
                THEN /\ Send({RejectMsg(t.job.request_id, sender_order, my_order,
                                        "NoValidityProof")})
                     /\ Return(t)
                ELSE Goto(t, "check_local_order") /\ UNCHANGED network_channel
    /\ UNCHANGED <<bookVars, handshake_cache, handshake_state_index, job_channel,
                   system_bus, brokered, listenerVars, cancelVars, netVars, matchVars, histVars>>

\* order_ready_for_handshake(my_order)
ProposeCheckLocalOrder(t) ==
    /\ IsAt(t, "ProposeMatchCandidate", "check_local_order")
    /\ LET my_order == t.job.order1
           sender_order == t.job.order2
       IN  IF lock_panics(Book, my_order)
           THEN Return(t) /\ UNCHANGED network_channel
           ELSE IF ~order_ready_for_handshake(Book, my_order)
                THEN /\ Send({RejectMsg(t.job.request_id, sender_order, my_order,
                                        "LocalOrderNotReady")})
                     /\ Return(t)
                ELSE Goto(t, "new_handshake") /\ UNCHANGED network_channel
    /\ UNCHANGED <<bookVars, handshake_cache, handshake_state_index, job_channel,
                   system_bus, brokered, listenerVars, cancelVars, netVars, matchVars, histVars>>

\* Mutant: the record is written whether or not the request id exists, and
\* the handler goes on.
ProposeNewHandshake_overwriting(t) ==
    /\ IsAt(t, "ProposeMatchCandidate", "new_handshake")
    /\ handshake_state_index' =
           new_handshake(handshake_state_index, Book, t.job.request_id,
                         t.job.order2, t.job.order1)
    /\ Goto(t, "check_cache")
    /\ UNCHANGED <<bookVars, handshake_cache, job_channel, network_channel,
                   system_bus, brokered, listenerVars, cancelVars, netVars, matchVars, histVars>>

\* handshake_state_index.new_handshake(request_id, sender_order, my_order)?
ProposeNewHandshake(t) ==
    /\ IsAt(t, "ProposeMatchCandidate", "new_handshake")
    /\ LET my_order == t.job.order1
           sender_order == t.job.order2
           r == t.job.request_id
       IN  IF new_handshake_ok(handshake_state_index, Book, r, sender_order, my_order)
           THEN /\ handshake_state_index' =
                       new_handshake(handshake_state_index, Book, r, sender_order, my_order)
                /\ Goto(t, "check_cache")
           ELSE /\ Return(t)
                /\ UNCHANGED handshake_state_index
    /\ UNCHANGED <<bookVars, handshake_cache, job_channel, network_channel,
                   system_bus, brokered, listenerVars, cancelVars, netVars, matchVars, histVars>>

\* Mutant: the cache is not consulted.
previously_matched_unchecked(c, my_order, sender_order) == FALSE

\* let previously_matched = handshake_cache.read().await.contains(my_order, sender_order)
previously_matched(c, my_order, sender_order) ==
    cache_contains(c, my_order, sender_order)

\* The cache check; on a hit the proposal is rejected as Cached.
ProposeCheckCache(t) ==
    /\ IsAt(t, "ProposeMatchCandidate", "check_cache")
    /\ LET my_order == t.job.order1
           sender_order == t.job.order2
       IN  IF previously_matched(handshake_cache, my_order, sender_order)
           THEN /\ Send({RejectMsg(t.job.request_id, sender_order, my_order, "Cached")})
                /\ Return(t)
           ELSE Goto(t, "broker_mpc_net") /\ UNCHANGED network_channel
    /\ UNCHANGED <<bookVars, handshake_cache, handshake_state_index, job_channel,
                   system_bus, brokered, listenerVars, cancelVars, netVars, matchVars, histVars>>

\* BrokerMpcNet as Listener, the MatchInProgress pubsub, the ExecuteMatch
\* reply; or network_channel.send fails (the network manager dropped its
\* receiver) and the handler returns the error of the first send.
ProposeAccept(t) ==
    /\ IsAt(t, "ProposeMatchCandidate", "broker_mpc_net")
    /\ LET my_order == t.job.order1
           sender_order == t.job.order2
           r == t.job.request_id
       IN  \/ /\ Send({ BrokerMpcNetMsg(r, "Listener"),
                        MatchInProgressMsg(my_order, sender_order),
                        ExecuteMatchMsg(r, my_order, sender_order) })
              /\ brokered' = brokered \cup {r}
           \/ UNCHANGED <<network_channel, brokered>>
    /\ Return(t)
    /\ UNCHANGED <<bookVars, handshake_cache, handshake_state_index, job_channel,
                   system_bus, listenerVars, cancelVars, netVars, matchVars, histVars>>

\* ------------------------------------------------------------------------
\* perform_handshake (job.order1 = peer_order_id)
\* ------------------------------------------------------------------------

\* Mutant: the cache is not consulted for the choice.
choose_match_proposal_uncached(c, b, peer_order) ==
    get_local_scheduleable_orders(b)

\* choose_match_proposal: the local schedulable orders not cached against
\* peer_order; the first in the iteration order of the hash set is returned,
\* so any of them may be.
choose_match_proposal(c, b, peer_order) ==
    {id \in get_local_scheduleable_orders(b) : ~cache_contains(c, id, peer_order)}

\* choose_match_proposal: handshake_cache.read().await; the guard is kept in
\* locked_handshake_cache while the task awaits read_order_book().
PerformLockCache(t) ==
    /\ IsAt(t, "PerformHandshake", "choose_match_proposal")
    /\ Goto(t, "read_order_book")
    /\ UNCHANGED <<bookVars, execVars_but_tasks, listenerVars, cancelVars, netVars, matchVars, histVars>>

\* The order book is read under the cache read lock and the first order not
\* in the cache is returned; both guards are dropped at the return.
\* has_validity_witness unwinds on a poisoned order lock.
PerformChooseMatchProposal(t) ==
    /\ IsAt(t, "PerformHandshake", "read_order_book")
    /\ LET peer_order == t.job.order1
           proposals == choose_match_proposal(handshake_cache, Book, peer_order)
       IN  IF \/ \E id \in verified_orders \cap local_orders : lock_panics(Book, id)
              \/ proposals = {}
           THEN Return(t)
           ELSE \E id \in proposals :
                    tasks' = (tasks \ {t}) \cup
                        {[t EXCEPT !.pc = "send_proposal", !.local_order_id = id]}
    /\ UNCHANGED <<bookVars, handshake_cache, handshake_state_index, job_channel,
                   network_channel, system_bus, brokered, listenerVars, cancelVars, netVars, matchVars, histVars>>

\* Request ids some handshake already uses: Uuid::new_v4 returns none of them.
UsedRequestIds ==
    (DOMAIN handshake_state_index)
    \cup {t.job.request_id : t \in tasks}
    \cup {job_channel[i].request_id : i \in 1..Len(job_channel)}

\* get_peer_managing_order (no peer known: the job is dropped), then the
\* ProposeMatchCandidate request under a fresh request id.
PerformSendProposal(t) ==
    /\ IsAt(t, "PerformHandshake", "send_proposal")
    /\ \/ Return(t) /\ UNCHANGED network_channel
       \/ \E r \in ReqIds \ UsedRequestIds :
              /\ Send({ProposeMsg(r, t.local_order_id, t.job.order1)})
              /\ tasks' = (tasks \ {t}) \cup
                     {[t EXCEPT !.pc = "new_handshake", !.job.request_id = r]}
    /\ UNCHANGED <<bookVars, handshake_cache, handshake_state_index, job_channel,
                   system_bus, brokered, listenerVars, cancelVars, netVars, matchVars, histVars>>

\* handshake_state_index.new_handshake(request_id, peer_order_id, local_order_id)?
\* after the request was sent.
PerformNewHandshake(t) ==
    /\ IsAt(t, "PerformHandshake", "new_handshake")
    /\ LET r == t.job.request_id
       IN  IF new_handshake_ok(handshake_state_index, Book, r, t.job.order1, t.local_order_id)
           THEN handshake_state_index' =
                    new_handshake(handshake_state_index, Book, r, t.job.order1,
                                  t.local_order_id)
           ELSE UNCHANGED handshake_state_index
    /\ Return(t)
    /\ UNCHANGED <<bookVars, handshake_cache, job_channel, network_channel,
                   system_bus, brokered, listenerVars, cancelVars, netVars, matchVars, histVars>>

\* ------------------------------------------------------------------------
\* handle_execute_match, handle_proposal_rejection, the cache jobs and the
\* shootdown job
\* ------------------------------------------------------------------------

\* handle_execute_match: handshake_cache.mark_completed(order1, order2); the
\* state index is not consulted.
ExecuteMatchCacheResult(t) ==
    /\ IsAt(t, "ExecuteMatch", "cache_result")
    /\ CacheWriteLock
    /\ handshake_cache' = mark_completed(handshake_cache, t.job.order1, t.job.order2)
    /\ Goto(t, "broker_mpc_net")
    /\ UNCHANGED <<bookVars, handshake_state_index, job_channel, network_channel,
                   system_bus, brokered, listenerVars, cancelVars, netVars, matchVars, histVars>>

\* handle_execute_match: BrokerMpcNet as Dialer, then the Ack.
ExecuteMatchBrokerMpcNet(t) ==
    /\ IsAt(t, "ExecuteMatch", "broker_mpc_net")
    /\ Send({BrokerMpcNetMsg(t.job.request_id, "Dialer"), AckMsg(t.job.request_id)})
    /\ brokered' = brokered \cup {t.job.request_id}
    /\ Return(t)
    /\ UNCHANGED <<bookVars, handshake_cache, handshake_state_index, job_channel,
                   system_bus, listenerVars, cancelVars, netVars, matchVars, histVars>>

\* Mutant: the rejection is dropped whatever its reason.
HandleProposalRejection_dropped(t) ==
    /\ IsAt(t, "RejectMatchCandidate", "handle_proposal_rejection")
    /\ Return(t)
    /\ UNCHANGED <<bookVars, execVars_but_tasks, listenerVars, cancelVars, netVars, matchVars, histVars>>

\* handle_proposal_rejection: only the reason Cached changes anything.
HandleProposalRejection(t) ==
    /\ IsAt(t, "RejectMatchCandidate", "handle_proposal_rejection")
    /\ CacheWriteLock
    /\ handshake_cache' =
           IF t.job.reason = "Cached"
           THEN mark_completed(handshake_cache, t.job.order1, t.job.order2)
           ELSE handshake_cache
    /\ Return(t)
    /\ UNCHANGED <<bookVars, handshake_state_index, job_channel, network_channel,
                   system_bus, brokered, listenerVars, cancelVars, netVars, matchVars, histVars>>

\* HandshakeExecutionJob::CacheEntry
HandleCacheEntry(t) ==
    /\ IsAt(t, "CacheEntry", "mark_completed")
    /\ CacheWriteLock
    /\ handshake_cache' = mark_completed(handshake_cache, t.job.order1, t.job.order2)
    /\ Return(t)
    /\ UNCHANGED <<bookVars, handshake_state_index, job_channel, network_channel,
                   system_bus, brokered, listenerVars, cancelVars, netVars, matchVars, histVars>>

\* Mutant: the PeerMatchInProgress job overwrites the entry of the pair.
HandlePeerMatchInProgress_overwriting(t) ==
    /\ IsAt(t, "PeerMatchInProgress", "mark_invisible")
    /\ CacheWriteLock
    /\ handshake_cache' =
           [handshake_cache EXCEPT ![cache_key(t.job.order1, t.job.order2)] = "Invisible"]
    /\ Return(t)
    /\ UNCHANGED <<bookVars, handshake_state_index, job_channel, network_channel,
                   system_bus, brokered, listenerVars, cancelVars, netVars, matchVars, histVars>>

\* HandshakeExecutionJob::PeerMatchInProgress
HandlePeerMatchInProgress(t) ==
    /\ IsAt(t, "PeerMatchInProgress", "mark_invisible")
    /\ CacheWriteLock
    /\ handshake_cache' = mark_invisible(handshake_cache, t.job.order1, t.job.order2)
    /\ Return(t)
    /\ UNCHANGED <<bookVars, handshake_state_index, job_channel, network_channel,
                   system_bus, brokered, listenerVars, cancelVars, netVars, matchVars, histVars>>

\* HandshakeExecutionJob::MpcShootdown { match_nullifier }
HandleMpcShootdown(t) ==
    /\ IsAt(t, "MpcShootdown", "shootdown")
    /\ handshake_state_index' =
           shootdown_nullifier(handshake_state_index, t.job.nullifier)
    /\ shootdown_done' = shootdown_done \cup {t.job.nullifier}
    /\ Return(t)
    /\ UNCHANGED <<bookVars, handshake_cache, job_channel, network_channel,
                   system_bus, brokered, listenerVars, cancelVars, netVars, matchVars, njobs, mpc_started,
                   matched_by_handshake, evicted>>

\* ------------------------------------------------------------------------
\* HandshakeExecutionJob::MpcNetSetup { request_id }
\* ------------------------------------------------------------------------

\* handshake_state_index.get_state(&request_id): Err(InvalidRequest) when
\* there is no record; the order ids of the record are kept by the task.
MpcNetSetupGetState(t) ==
    /\ IsAt(t, "MpcNetSetup", "get_state")
    /\ LET r == t.job.request_id
       IN  IF r \in DOMAIN handshake_state_index
           THEN tasks' = (tasks \ {t}) \cup
                    {[t EXCEPT !.pc = "mark_invisible",
                               !.job.order1 = handshake_state_index[r].local_order_id,
                               !.job.order2 = handshake_state_index[r].peer_order_id]}
           ELSE Return(t)
    /\ UNCHANGED <<bookVars, handshake_cache, handshake_state_index, job_channel,
                   network_channel, system_bus, brokered, listenerVars, cancelVars, netVars, matchVars, histVars>>

\* handshake_cache.mark_invisible(local, peer, window), then the
\* HandshakeInProgress event.
MpcNetSetupMarkInvisible(t) ==
    /\ IsAt(t, "MpcNetSetup", "mark_invisible")
    /\ CacheWriteLock
    /\ handshake_cache' = mark_invisible(handshake_cache, t.job.order1, t.job.order2)
    /\ system_bus' = system_bus \cup
           {BusEvent("HandshakeInProgress", t.job.order1, t.job.order2)}
    /\ Goto(t, "execute_match")
    /\ UNCHANGED <<bookVars, handshake_state_index, job_channel, network_channel,
                   brokered, listenerVars, cancelVars, netVars, matchVars, histVars>>

\* execute_match (handshake/match.rs is not among the sources; modelled from
\* the MPC runner's contract): the record advances to RunningMpc, unless its
\* cancel token was already triggered.
ExecuteMatchStart(t) ==
    /\ IsAt(t, "MpcNetSetup", "execute_match")
    /\ LET r == t.job.request_id
       IN  IF handshake_state_index[r].cancelled
           THEN /\ Return(t)
                /\ UNCHANGED <<handshake_state_index, mpc_started>>
           ELSE /\ handshake_state_index' = advance(handshake_state_index, r, "RunningMpc")
                /\ mpc_started' = mpc_started \cup {r}
                /\ Goto(t, "running_mpc")
    /\ UNCHANGED <<bookVars, handshake_cache, job_channel, network_channel,
                   system_bus, brokered, listenerVars, cancelVars, netVars, matchVars, njobs, shootdown_done,
                   matched_by_handshake, evicted>>

\* execute_match returns: aborted when the cancel token is triggered, else a
\* match result or a failure of the runner; an abort or failure leaves the
\* record Aborted and ends the job with the error.
ExecuteMatchFinish(t) ==
    /\ IsAt(t, "MpcNetSetup", "running_mpc")
    /\ LET r == t.job.request_id
       IN  \/ /\ ~handshake_state_index[r].cancelled
              /\ Goto(t, "record_completed_match")
              /\ UNCHANGED handshake_state_index
           \/ /\ handshake_state_index' = advance(handshake_state_index, r, "Aborted")
              /\ Return(t)
    /\ UNCHANGED <<bookVars, handshake_cache, job_channel, network_channel,
                   system_bus, brokered, listenerVars, cancelVars, netVars, matchVars, histVars>>

\* record_completed_match: get_state, then
\* handshake_cache.mark_completed(local_order_id, peer_order_id).
RecordCompletedMatchCache(t) ==
    /\ IsAt(t, "MpcNetSetup", "record_completed_match")
    /\ CacheWriteLock
    /\ handshake_cache' = mark_completed(handshake_cache, t.job.order1, t.job.order2)
    /\ Goto(t, "mark_order_pair_matched")
    /\ UNCHANGED <<bookVars, handshake_state_index, job_channel, network_channel,
                   system_bus, brokered, listenerVars, cancelVars, netVars, matchVars, histVars>>

\* RelayerState::mark_order_pair_matched (state/mod.rs is not among the
\* sources; modelled from "records a match in the Order Book, both orders ->
\* Matched{by_local = true}"): transition_matched on one order, then on the
\* other, under one write lock of the book.
mark_order_pair_matched(b, o1, o2) ==
    LET b1 == transition_matched(b, o1, TRUE)
    IN  IF b1.panic THEN b1 ELSE transition_matched(b1, o2, TRUE)

\* record_completed_match: global_state.mark_order_pair_matched(local, peer);
\* a failed assertion of transition_matched unwinds the task.
RecordCompletedMatchBook(t) ==
    /\ IsAt(t, "MpcNetSetup", "mark_order_pair_matched")
    /\ LET b == mark_order_pair_matched(Book, t.job.order1, t.job.order2)
       IN  /\ SetBook(b)
           /\ matched_by_handshake' = matched_by_handshake \cup
                  {id \in {t.job.order1, t.job.order2} :
                      /\ contains_order(b, id)
                      /\ b.order_map[id].state = "Matched"
                      /\ order_map[id].state # "Matched"}
           /\ IF b.panic THEN Return(t) ELSE Goto(t, "completed")
    /\ UNCHANGED <<execVars_but_tasks, listenerVars, cancelVars, netVars, matchVars, njobs, shootdown_done, mpc_started,
                   evicted>>

\* record_completed_match: handshake_state_index.completed(&request_id)
RecordCompletedMatchIndex(t) ==
    /\ IsAt(t, "MpcNetSetup", "completed")
    /\ handshake_state_index' = completed(handshake_state_index, t.job.request_id)
    /\ Goto(t, "publish")
    /\ UNCHANGED <<bookVars, handshake_cache, job_channel, network_channel,
                   system_bus, brokered, listenerVars, cancelVars, netVars, matchVars, histVars>>

\* Mutant: record_completed_match returns before the CacheSync pubsub and
\* the HandshakeCompleted event.
RecordCompletedMatchPublish_skipped(t) ==
    /\ IsAt(t, "MpcNetSetup", "publish")
    /\ Goto(t, "submit_match")
    /\ UNCHANGED <<bookVars, execVars_but_tasks, listenerVars, cancelVars, netVars, matchVars,
                   histVars>>

\* record_completed_match: the CacheSync pubsub, then the HandshakeCompleted
\* event.
RecordCompletedMatchPublish(t) ==
    /\ IsAt(t, "MpcNetSetup", "publish")
    /\ Send({CacheSyncMsg(t.job.order1, t.job.order2)})
    /\ system_bus' = system_bus \cup
           {BusEvent("HandshakeCompleted", t.job.order1, t.job.order2)}
    /\ Goto(t, "submit_match")
    /\ UNCHANGED <<bookVars, handshake_cache, handshake_state_index, job_channel,
                   brokered, listenerVars, cancelVars, netVars, matchVars, histVars>>

\* submit_match(res): the match goes to the contract; the job ends.
SubmitMatch(t) ==
    /\ IsAt(t, "MpcNetSetup", "submit_match")
    /\ Return(t)
    /\ UNCHANGED <<bookVars, handshake_cache, handshake_state_index, job_channel,
                   network_channel, system_bus, brokered, listenerVars, cancelVars, netVars, matchVars, histVars>>

\* ------------------------------------------------------------------------
\* OnChainEventListenerExecutor::handle_nullifier_spent
\* ------------------------------------------------------------------------

\* The first order of a set, for a loop over it.
RECURSIVE cancel_all(_, _)
cancel_all(b, ids) ==
    IF ids = {} \/ b.panic THEN b
    ELSE LET id == CHOOSE x \in ids : TRUE
         IN  cancel_all(transition_cancelled(b, id), ids \ {id})

\* RelayerState::nullify_orders (state/mod.rs is not among the sources;
\* modelled from "every order whose match_nullifier matches is transitioned
\* to Cancelled").
nullify_orders(b, n) ==
    cancel_all(b, {id \in DOMAIN b.order_map : b.order_map[id].match_nullifier = n})

\* execute: the loop sleeps and calls poll_contract_events, with no branch
\* on the cancel channel.  A NullifierSpent(n) event of the poll is
\* dispatched by handle_event; the MpcShootdown job is sent to the handshake
\* manager first.
HandleNullifierSpentSend ==
    /\ listener.pc = "poll"
    /\ Tick("listener")
    /\ \E n \in Nullifiers \ spent_on_chain :
           /\ spent_on_chain' = spent_on_chain \cup {n}
           /\ IF "executor" \in stopped
              THEN UNCHANGED <<job_channel, listener>>
              ELSE /\ SendJob(Job("MpcShootdown", NoRequest, NoOrder, NoOrder,
                                  NoReason, n))
                   /\ listener' = [pc |-> "nullify_orders", nullifier |-> n]
    /\ UNCHANGED <<bookVars, handshake_cache, handshake_state_index, tasks,
                   network_channel, system_bus, brokered, nullifier_handled,
                   merkle_last_consistent_block, path_siblings, merkle_applied,
                   pagination_token, chain_events, events_handled,
                   cancel_sent, stopped, netVars, matchVars,
                   njobs, shootdown_done, mpc_started, matched_by_handshake, evicted>>

\* global_state.nullify_orders(nullifier); a poisoned order lock unwinds the
\* listener's thread.
HandleNullifierSpentNullify ==
    /\ listener.pc = "nullify_orders"
    /\ LET b == nullify_orders(Book, listener.nullifier)
       IN  /\ SetBook(b)
           /\ IF b.panic
              THEN /\ listener' = [pc |-> "panicked", nullifier |-> NoNullifier]
                   /\ UNCHANGED nullifier_handled
              ELSE /\ listener' = [pc |-> "poll", nullifier |-> NoNullifier]
                   /\ nullifier_handled' = nullifier_handled \cup {listener.nullifier}
    /\ UNCHANGED <<execVars, spent_on_chain, merkle_last_consistent_block,
                   path_siblings, merkle_applied, pagination_token,
                   chain_events, events_handled, cancelVars, netVars, matchVars, histVars>>

\* update_wallet_merkle_path with "=" read as "+=": the mapped value is
\* added to the sibling.
update_wallet_merkle_path_accumulating(merkle_proof, updated_nodes) ==
    [i \in 1..TreeHeight |->
        IF compute_authentication_path_coords[i] \in DOMAIN updated_nodes
        THEN (merkle_proof[i]
                  + updated_nodes[compute_authentication_path_coords[i]]) % 2
        ELSE merkle_proof[i]]

\* update_wallet_merkle_path: every sibling of the path whose coordinate is
\* a key of updated_nodes takes the mapped value.
update_wallet_merkle_path(merkle_proof, updated_nodes) ==
    [i \in 1..TreeHeight |->
        IF compute_authentication_path_coords[i] \in DOMAIN updated_nodes
        THEN updated_nodes[compute_authentication_path_coords[i]]
        ELSE merkle_proof[i]]

\* handle_event for a Merkle_root_changed event of the poll: the event is
\* skipped when its block is not above merkle_last_consistent_block (a
\* field no handler assigns: handle_event and handle_root_changed take
\* &self); otherwise handle_root_changed composes the block's node changes
\* into one map and patches the wallet's path.  The chain reports the same
\* node changes for a block every time it is asked.
HandleMerkleRootChanged ==
    /\ listener.pc = "poll"
    /\ \E block_number \in 0..MaxBlock, node_change_events \in UpdatedNodes :
           IF block_number <= merkle_last_consistent_block
           THEN UNCHANGED <<path_siblings, merkle_applied>>
           ELSE /\ Len(merkle_applied) < MaxMerkleEvents
                /\ \A k \in 1..Len(merkle_applied) :
                       merkle_applied[k][1] = block_number
                           => merkle_applied[k][2] = node_change_events
                /\ path_siblings' =
                       update_wallet_merkle_path(path_siblings, node_change_events)
                /\ merkle_applied' =
                       Append(merkle_applied, <<block_number, node_change_events>>)
    /\ UNCHANGED <<bookVars, execVars, listener, spent_on_chain,
                   nullifier_handled, merkle_last_consistent_block,
                   pagination_token, chain_events, events_handled,
                   cancelVars, netVars, matchVars, njobs, shootdown_done, mpc_started,
                   matched_by_handshake, evicted>>

\* ------------------------------------------------------------------------
\* HandshakeScheduler::execution_loop
\* ------------------------------------------------------------------------

\* The timer branch of the select!: after the cancel signal it is ready at
\* most once (the sleep that was due when the signal came; the next sleep
\* of HANDSHAKE_INTERVAL_MS loses to cancel.changed()).
\* RelayerState::choose_handshake_order (not among the sources; modelled
\* from "a random non-local verified order"), then the PerformHandshake job.
SchedulerTick ==
    /\ "scheduler" \notin stopped
    /\ cancel_sent => ticks_after_cancel["scheduler"] = 0
    /\ Tick("scheduler")
    /\ \E order \in get_nonlocal_verified_orders(Book) :
           Enqueue(Job("PerformHandshake", NoRequest, order, NoOrder, NoReason,
                       NoNullifier))
    /\ UNCHANGED <<bookVars, handshake_cache, handshake_state_index, tasks,
                   network_channel, system_bus, brokered, listenerVars,
                   cancel_sent, stopped, netVars, matchVars,
                   shootdown_done, mpc_started, matched_by_handshake, evicted>>

\* The cancel branch of the scheduler's select!: the loop returns.
SchedulerCancelled ==
    /\ cancel_sent
    /\ "scheduler" \notin stopped
    /\ stopped' = stopped \cup {"scheduler"}
    /\ UNCHANGED <<bookVars, execVars, listenerVars, cancel_sent, netVars, matchVars,
                   ticks_after_cancel, histVars>>

\* The cancel branch of the executor's select!: the loop returns; the tasks
\* it spawned run on.
ExecutorCancelled ==
    /\ cancel_sent
    /\ "executor" \notin stopped
    /\ stopped' = stopped \cup {"executor"}
    /\ UNCHANGED <<bookVars, execVars, listenerVars, cancel_sent, netVars, matchVars,
                   ticks_after_cancel, histVars>>

\* The coordinator sends the process-wide cancel signal.
SendCancel ==
    /\ ~cancel_sent
    /\ cancel_sent' = TRUE
    /\ UNCHANGED <<bookVars, execVars, listenerVars, stopped, netVars, matchVars,
                   ticks_after_cancel, histVars>>

\* ------------------------------------------------------------------------
\* The order book's public operations, as calls by the node's workers.
\* ------------------------------------------------------------------------

\* The orders a caller passes to add_order: NetworkOrder::new(..), or an
\* order that already went through attach_commitment_proof (the branch
\* "if the order is verified already" of add_order).
NewOrders ==
    {NetworkOrder_new(n, l) : n \in Nullifiers, l \in BOOLEAN}
    \cup {attach_commitment_proof(NetworkOrder_new(n, l), n) :
              n \in Nullifiers, l \in BOOLEAN}

\* What a call of the order book leaves alone.
NodeUnchanged == UNCHANGED <<execVars, listenerVars, cancelVars, netVars, matchVars, histVars>>

AddOrder ==
    /\ \E id \in Orders, order \in NewOrders :
           SetBook(add_order(Book, id, order))
    /\ NodeUnchanged

UpdateOrderValidityProof ==
    /\ \E id \in Orders, proof \in Nullifiers :
           SetBook(update_order_validity_proof(Book, id, proof))
    /\ NodeUnchanged

AttachValidityProofWitness ==
    /\ \E id \in Orders :
           SetBook(attach_validity_proof_witness(Book, id))
    /\ NodeUnchanged

TransitionOrderReceived ==
    /\ \E id \in Orders :
           SetBook(transition_order_received(Book, id))
    /\ NodeUnchanged

TransitionVerified ==
    /\ \E id \in Orders, proof \in Nullifiers :
           SetBook(transition_verified(Book, id, proof))
    /\ NodeUnchanged

TransitionMatched ==
    /\ \E id \in Orders, by_local_node \in BOOLEAN :
           SetBook(transition_matched(Book, id, by_local_node))
    /\ NodeUnchanged

TransitionCancelled ==
    /\ \E id \in Orders :
           SetBook(transition_cancelled(Book, id))
    /\ NodeUnchanged

TransitionPruned ==
    /\ \E id \in Orders :
           SetBook(transition_pruned(Book, id))
    /\ NodeUnchanged

InitBook ==
    /\ SetBookInit
    /\ InitNode
    /\ match_orders = << >>
    /\ match_result = << >>

NextBook ==
    \/ AddOrder
    \/ UpdateOrderValidityProof
    \/ AttachValidityProofWitness
    \/ TransitionOrderReceived
    \/ TransitionVerified
    \/ TransitionMatched
    \/ TransitionCancelled
    \/ TransitionPruned

SpecBook == InitBook /\ [][NextBook]_vars

\* ------------------------------------------------------------------------
\* The node: the executor and its tasks, the scheduler, the chain listener,
\* the network manager's dispatch of inbound messages, and the workers that
\* fill the order book.
\* ------------------------------------------------------------------------

\* The orders of the node's universe: A is managed by the local node and
\* claims nullifier 1, B is a peer's order and claims nullifier 2.
ManagedLocally(id) == id = "A"
NullifierOf(id) == IF id = "A" THEN 1 ELSE 2

\* A new order is learned (gossip, or the local API): add_order.  A new
\* order claims a nullifier that is not spent.
LearnOrder ==
    /\ \E id \in Orders \ DOMAIN order_map :
           /\ NullifierOf(id) \notin spent_on_chain
           /\ SetBook(add_order(Book, id, NetworkOrder_new(NullifierOf(id),
                                                        ManagedLocally(id))))
    /\ NodeUnchanged

\* The proof of VALID COMMITMENTS of a Received order arrives:
\* update_order_validity_proof.
LearnOrderProof ==
    /\ \E id \in DOMAIN order_map :
           /\ order_map[id].state = "Received"
           /\ SetBook(update_order_validity_proof(Book, id, NullifierOf(id)))
    /\ NodeUnchanged

\* The proof manager stores the witness of a local order's proof:
\* attach_validity_proof_witness.
LearnOrderWitness ==
    /\ \E id \in DOMAIN order_map :
           /\ ManagedLocally(id)
           /\ ~order_map[id].valid_commit_witness
           /\ SetBook(attach_validity_proof_witness(Book, id))
    /\ NodeUnchanged

\* handle_inbound_request_response_message: a peer's ProposeMatchCandidate
\* becomes a job (peer_order is the receiver's own order).
ReceiveProposeMatchCandidate ==
    /\ \E r \in ReqIds, p \in OrderPairs :
           Enqueue(Job("ProposeMatchCandidate", r, p[1], p[2], NoReason, NoNullifier))
    /\ UNCHANGED <<bookVars, handshake_cache, handshake_state_index, tasks,
                   network_channel, system_bus, brokered, listenerVars, cancelVars, netVars, matchVars,
                   shootdown_done, mpc_started, matched_by_handshake, evicted>>

\* A peer's ExecuteMatch { order1, order2 }: order1 is the peer's own order.
ReceiveExecuteMatch ==
    /\ \E r \in ReqIds, p \in OrderPairs :
           /\ ~ManagedLocally(p[1])
           /\ Enqueue(Job("ExecuteMatch", r, p[1], p[2], NoReason, NoNullifier))
    /\ UNCHANGED <<bookVars, handshake_cache, handshake_state_index, tasks,
                   network_channel, system_bus, brokered, listenerVars, cancelVars, netVars, matchVars,
                   shootdown_done, mpc_started, matched_by_handshake, evicted>>

\* A peer's RejectMatchCandidate { peer_order, sender_order, reason }.
ReceiveRejectMatchCandidate ==
    /\ \E r \in ReqIds, p \in OrderPairs, reason \in RejectionReasons :
           /\ ManagedLocally(p[1])
           /\ Enqueue(Job("RejectMatchCandidate", r, p[1], p[2], reason, NoNullifier))
    /\ UNCHANGED <<bookVars, handshake_cache, handshake_state_index, tasks,
                   network_channel, system_bus, brokered, listenerVars, cancelVars, netVars, matchVars,
                   shootdown_done, mpc_started, matched_by_handshake, evicted>>

\* A cluster peer's CacheSync(order1, order2) pubsub: the CacheEntry job.
ReceiveCacheSync ==
    /\ \E p \in OrderPairs :
           /\ ManagedLocally(p[1])
           /\ Enqueue(Job("CacheEntry", NoRequest, p[1], p[2], NoReason, NoNullifier))
    /\ UNCHANGED <<bookVars, handshake_cache, handshake_state_index, tasks,
                   network_channel, system_bus, brokered, listenerVars, cancelVars, netVars, matchVars,
                   shootdown_done, mpc_started, matched_by_handshake, evicted>>

\* A cluster peer's MatchInProgress(order1, order2) pubsub: the
\* PeerMatchInProgress job.
ReceiveMatchInProgress ==
    /\ \E p \in OrderPairs :
           /\ ManagedLocally(p[1])
           /\ Enqueue(Job("PeerMatchInProgress", NoRequest, p[1], p[2], NoReason,
                          NoNullifier))
    /\ UNCHANGED <<bookVars, handshake_cache, handshake_state_index, tasks,
                   network_channel, system_bus, brokered, listenerVars, cancelVars, netVars, matchVars,
                   shootdown_done, mpc_started, matched_by_handshake, evicted>>

\* The network manager has brokered the MPC network of a request it was
\* directed to (BrokerMpcNet) and hands it over: the MpcNetSetup job.
MpcNetReady ==
    /\ \E r \in brokered :
           /\ SendJob(Job("MpcNetSetup", r, NoOrder, NoOrder, NoReason, NoNullifier))
           /\ brokered' = brokered \ {r}
    /\ UNCHANGED <<bookVars, handshake_cache, handshake_state_index, tasks,
                   network_channel, system_bus, listenerVars, cancelVars, netVars, matchVars,
                   njobs, shootdown_done, mpc_started, matched_by_handshake, evicted>>

\* Time passes the expiry of an InvisibleUntil(T) entry.
ExpireInvisibility ==
    /\ \E k \in Pairs :
           /\ handshake_cache[k] = "Invisible"
           /\ handshake_cache' = [handshake_cache EXCEPT ![k] = "Absent"]
    /\ UNCHANGED <<bookVars, handshake_state_index, job_channel, tasks,
                   network_channel, system_bus, brokered, listenerVars, cancelVars, netVars, matchVars, histVars>>

\* The cache is at its capacity HANDSHAKE_CACHE_SIZE with pairs of other
\* orders, and the insertion of one more evicts the least recently used
\* entry, here the Completed entry of k (the eviction of an invisible entry
\* is what ExpireInvisibility does).
EvictLeastRecentlyUsed ==
    /\ \E k \in Pairs :
           /\ handshake_cache[k] = "Completed"
           /\ handshake_cache' = [handshake_cache EXCEPT ![k] = "Absent"]
           /\ evicted' = evicted \cup {k}
    /\ UNCHANGED <<bookVars, handshake_state_index, job_channel, tasks,
                   network_channel, system_bus, brokered, listenerVars, cancelVars, netVars, matchVars,
                   njobs, shootdown_done, mpc_started, matched_by_handshake>>

\* One step of a spawned task.
TaskStep ==
    \/ \E t \in tasks : ProposeCheckPeerOrder(t)
    \/ \E t \in tasks : ProposeCheckLocalOrder(t)
    \/ \E t \in tasks : ProposeNewHandshake(t)
    \/ \E t \in tasks : ProposeCheckCache(t)
    \/ \E t \in tasks : ProposeAccept(t)
    \/ \E t \in tasks : PerformLockCache(t)
    \/ \E t \in tasks : PerformChooseMatchProposal(t)
    \/ \E t \in tasks : PerformSendProposal(t)
    \/ \E t \in tasks : PerformNewHandshake(t)
    \/ \E t \in tasks : ExecuteMatchCacheResult(t)
    \/ \E t \in tasks : ExecuteMatchBrokerMpcNet(t)
    \/ \E t \in tasks : HandleProposalRejection(t)
    \/ \E t \in tasks : HandleCacheEntry(t)
    \/ \E t \in tasks : HandlePeerMatchInProgress(t)
    \/ \E t \in tasks : HandleMpcShootdown(t)
    \/ \E t \in tasks : MpcNetSetupGetState(t)
    \/ \E t \in tasks : MpcNetSetupMarkInvisible(t)
    \/ \E t \in tasks : ExecuteMatchStart(t)
    \/ \E t \in tasks : ExecuteMatchFinish(t)
    \/ \E t \in tasks : RecordCompletedMatchCache(t)
    \/ \E t \in tasks : RecordCompletedMatchBook(t)
    \/ \E t \in tasks : RecordCompletedMatchIndex(t)
    \/ \E t \in tasks : RecordCompletedMatchPublish(t)
    \/ \E t \in tasks : SubmitMatch(t)

\* What the node does by itself.
NodeStep ==
    \/ execution_loop
    \/ TaskStep
    \/ SchedulerTick
    \/ HandleNullifierSpentNullify
    \/ MpcNetReady

\* What the chain, the peers, the clock and the local user do.
Environment ==
    \/ LearnOrder
    \/ LearnOrderProof
    \/ LearnOrderWitness
    \/ ReceiveProposeMatchCandidate
    \/ ReceiveExecuteMatch
    \/ ReceiveRejectMatchCandidate
    \/ ReceiveCacheSync
    \/ ReceiveMatchInProgress
    \/ HandleNullifierSpentSend
    \/ ExpireInvisibility
    \/ EvictLeastRecentlyUsed

Init ==
    /\ SetBookInit
    /\ InitNode
    /\ match_orders = << >>
    /\ match_result = << >>

Next == NodeStep \/ Environment

Spec == Init /\ [][Next]_vars

\* ------------------------------------------------------------------------
\* Claims about the order book (checked under SpecBook)
\* ------------------------------------------------------------------------

\* C7: in every reachable order book, every order whose state is Verified
\* has a validity proof attached (valid_commit_proof is not None).
C7_VerifiedHasProof ==
    \A id \in DOMAIN order_map :
        order_map[id].state = "Verified" =>
            order_map[id].valid_commit_proof # NoProof

\* C7 witness: an order that was Received became Verified through
\* update_order_validity_proof or transition_verified (it is in the set of
\* verified orders, its nullifier is the proof's) and holds the proof.
C7_Witness ==
    \E id \in DOMAIN order_map :
        /\ order_map[id].state = "Verified"
        /\ id \in verified_orders
        /\ order_map[id].valid_commit_proof = order_map[id].match_nullifier
        /\ order_map[id].valid_commit_witness

\* C8: in every reachable order book, an order has a validity proof
\* attached if and only if its state is Verified or Matched; an order moved
\* to Cancelled, Pruned or back to Received holds no proof.
C8_ProofIffVerifiedOrMatched ==
    \A id \in DOMAIN order_map :
        (order_map[id].valid_commit_proof # NoProof)
            <=> (order_map[id].state \in {"Verified", "Matched"})

\* C9: in every reachable order book, every order that holds a validity
\* witness is locally managed (local = true).
C9_WitnessOnlyOnLocal ==
    \A id \in DOMAIN order_map :
        order_map[id].valid_commit_witness => order_map[id].local

\* The transitions of the order state DAG: Received -> Verified -> Matched,
\* any state -> Cancelled, Verified -> Pruned.
LegalTransition(prev, new) ==
    \/ prev = "Received" /\ new = "Verified"
    \/ prev = "Verified" /\ new = "Matched"
    \/ new = "Cancelled"
    \/ prev = "Verified" /\ new = "Pruned"

\* C10: every change of an order's state made through the order book
\* follows the DAG; no operation produces any other transition.
C10_OnlyLegalTransitions ==
    [][\A id \in (DOMAIN order_map) \cap (DOMAIN order_map') :
          order_map'[id].state # order_map[id].state =>
              LegalTransition(order_map[id].state, order_map'[id].state)]_vars

\* C11: in every reachable order book, for every nullifier n the set
\* orders_by_nullifier[n] is exactly the set of the ids of the orders whose
\* match_nullifier is n.
C11_NullifierIndexInSync ==
    \A n \in Nullifiers :
        orders_by_nullifier[n] =
            {id \in DOMAIN order_map : order_map[id].match_nullifier = n}

\* C33: add_order of an order whose id is already in the book (the order as
\* NetworkOrder::new builds it, with the nullifier and the local flag of the
\* stored order) leaves the stored order, the verified set, the local set
\* and the nullifier index as they were.
C33_AddOrderIdempotent ==
    \A id \in DOMAIN order_map, order \in NewOrders :
        (/\ order.state = "Received"
         /\ order.match_nullifier = order_map[id].match_nullifier
         /\ order.local = order_map[id].local)
          => LET b == add_order(Book, id, order)
             IN  /\ b.order_map[id] = order_map[id]
                 /\ b.verified_orders = verified_orders
                 /\ b.local_orders = local_orders
                 /\ b.orders_by_nullifier = orders_by_nullifier

\* C34: update_order_validity_proof and transition_verified on an id that is
\* unknown, or whose order is not in state Received, leave the order's state
\* as it is and add nothing to the verified set.
C34_ProofRequiresReceived ==
    \A id \in Orders, proof \in Nullifiers :
        (id \in DOMAIN order_map => order_map[id].state # "Received")
          => \A b \in {update_order_validity_proof(Book, id, proof),
                       transition_verified(Book, id, proof)} :
                 /\ b.verified_orders \subseteq verified_orders
                 /\ id \in DOMAIN order_map
                        => b.order_map[id].state = order_map[id].state

\* C36: transition_order_received on an order of the book (whose lock is
\* not poisoned) leaves it in state Received with no validity proof
\* attached and its id outside the verified set.
C36_ReceivedDropsProof ==
    \A id \in (DOMAIN order_map) \ poisoned :
        LET b == transition_order_received(Book, id)
        IN  /\ b.order_map[id].state = "Received"
            /\ b.order_map[id].valid_commit_proof = NoProof
            /\ id \notin b.verified_orders

\* C37: in every reachable order book the verified set is exactly the set of
\* the ids of the orders in state Verified.
C37_VerifiedSetInSync ==
    verified_orders = {id \in DOMAIN order_map : order_map[id].state = "Verified"}

\* C35: a call of update_order_validity_proof or of a transition that
\* changes the state of an order publishes exactly one OrderStateChange
\* event, with the order's id and its states before and after the call.
C35_StateChangePublished ==
    \A id \in DOMAIN order_map, proof \in Nullifiers :
        \A b \in {update_order_validity_proof(Book, id, proof),
                  transition_order_received(Book, id),
                  transition_verified(Book, id, proof),
                  transition_matched(Book, id, TRUE),
                  transition_cancelled(Book, id),
                  transition_pruned(Book, id)} :
            (~b.panic /\ b.order_map[id].state # order_map[id].state)
              => b.published = << [ order_id   |-> id,
                                    prev_state |-> order_map[id].state,
                                    new_state  |-> b.order_map[id].state ] >>

\* ------------------------------------------------------------------------
\* Claims about the handshake executor (checked under Spec)
\* ------------------------------------------------------------------------

\* The step in which task t, a handler of ProposeMatchCandidate, accepts:
\* the BrokerMpcNet directive and the ExecuteMatch reply are sent.
Accepts(t) ==
    /\ IsAt(t, "ProposeMatchCandidate", "broker_mpc_net")
    /\ t \notin tasks'
    /\ ExecuteMatchMsg(t.job.request_id, t.job.order1, t.job.order2) \in network_channel'

\* The step in which task t, in perform_handshake, sends its proposal.
SendsProposal(t) ==
    /\ IsAt(t, "PerformHandshake", "send_proposal")
    /\ \E r \in ReqIds :
           /\ ProposeMsg(r, t.local_order_id, t.job.order1) \in network_channel'
           /\ [t EXCEPT !.pc = "new_handshake", !.job.request_id = r] \in tasks'

RecordPair(r) ==
    cache_key(handshake_state_index[r].local_order_id,
              handshake_state_index[r].peer_order_id)

\* C2: at most one handshake per unordered pair of orders ever reaches the
\* MPC stage on the node: no two requests whose match execution started are
\* on the same pair.
C2_NeverDoubleMatch ==
    \A r1 \in mpc_started, r2 \in mpc_started :
        r1 # r2 => RecordPair(r1) # RecordPair(r2)

\* The listener had handled NullifierSpent for the nullifier of order id
\* when the job of task t was enqueued.
Nullified(t, id) ==
    /\ id \in DOMAIN order_map
    /\ order_map[id].match_nullifier \in t.job.handled_on_arrival

\* C3: once the listener has handled NullifierSpent(n), no handshake that
\* starts afterwards (a PerformHandshake job or an inbound proposal enqueued
\* after the handling) sends a ProposeMatchCandidate that uses, or accepts a
\* proposal that targets, a local order whose match_nullifier is n.
C3_NeverHandshakeOnNullifiedOrder ==
    [][\A t \in tasks :
          /\ SendsProposal(t) => ~Nullified(t, t.local_order_id)
          /\ Accepts(t) => ~Nullified(t, t.job.order1)]_vars

\* C4: for every nullifier n whose NullifierSpent event the listener has
\* handled and whose MpcShootdown job the executor has processed, no
\* handshake record that references n is in phase RunningMpc.
C4_NoRunningMpcAfterShootdown ==
    \A n \in nullifier_handled \cap shootdown_done :
        \A r \in DOMAIN handshake_state_index :
            n \in handshake_state_index[r].nullifiers
                => handshake_state_index[r].phase # "RunningMpc"

\* The HandshakeCompleted events published on the system bus.
CompletedEvents == {e \in system_bus : e.type = "HandshakeCompleted"}

SiblingMatchInProgress(k) ==
    /\ handshake_cache[k] = "Invisible"
    /\ \A e \in system_bus :
           e.type = "HandshakeInProgress"
               => cache_key(e.local_order_id, e.peer_order_id) # k

\* C12: a node that has processed a sibling's MatchInProgress(A,B) sends no
\* ProposeMatchCandidate for the pair {A,B} until the invisibility window
\* has elapsed.
C12_NoProposalWhileSiblingMatches ==
    [][\A t \in tasks :
          SendsProposal(t)
              => ~SiblingMatchInProgress(cache_key(t.local_order_id, t.job.order1))]_vars

\* C13: after an aborted MPC (the match execution of the request started
\* and its record is Aborted) the cache entry of the pair is InvisibleUntil(T)
\* or expired, not Completed, unless a handshake on the pair did complete: the
\* stuck pair becomes eligible for scheduling again once the window elapsed.
C13_AbortedPairNotCompleted ==
    \A r \in mpc_started :
        (/\ handshake_state_index[r].phase = "Aborted"
         /\ \A e \in CompletedEvents :
                cache_key(e.local_order_id, e.peer_order_id) # RecordPair(r))
            => handshake_cache[RecordPair(r)] # "Completed"

HeldCompletedSinceArrival(t) ==
    /\ t.job.kind = "ProposeMatchCandidate"
    /\ t.job.cached_on_arrival
    /\ cache_key(t.job.order1, t.job.order2) \notin evicted

\* The handler of task t returns in this step.
Returns(t) == \A u \in tasks' : u.origin # t.origin

\* C17: rejection by cache: whenever the recipient's cache holds the pair as
\* Completed and a ProposeMatchCandidate for it arrives, the recipient
\* replies Reject(Cached).
C17_CompletedAlwaysRejectedAsCached ==
    [][\A t \in tasks :
          (HeldCompletedSinceArrival(t) /\ Returns(t))
              => network_channel' =
                     {RejectMsg(t.job.request_id, t.job.order2, t.job.order1, "Cached")}]_vars

\* C17, amended: rejection by cache.  On the recipient, the handler of a
\* proposal whose pair the cache held as Completed on arrival never reaches
\* the BrokerMpcNet directive, answers the cache check (reached when the
\* sender's order is Verified, the target order is ready and the request id
\* is new) with Reject(Cached) and
\* leaves the order book as it is; on the initiator, the handler of a
\* Reject(Cached) leaves the pair Completed in the cache, sends nothing (no
\* BrokerMpcNet directive) and leaves the order book as it is.
C17_RejectionByCache ==
    [][\A t \in tasks \ tasks' :
          /\ HeldCompletedSinceArrival(t)
                => /\ t.pc # "broker_mpc_net"
                   /\ t.pc = "check_cache" =>
                          network_channel' =
                              {RejectMsg(t.job.request_id, t.job.order2, t.job.order1,
                                         "Cached")}
                   /\ brokered' = brokered
                   /\ order_map' = order_map
          /\ (t.job.kind = "RejectMatchCandidate" /\ t.job.reason = "Cached")
                => /\ handshake_cache'[cache_key(t.job.order1, t.job.order2)]
                          = "Completed"
                   /\ network_channel' = network_channel
                   /\ brokered' = brokered
                   /\ order_map' = order_map]_vars

\* C17 witness: both orders are Verified, the local one with its witness,
\* the pair is Completed in the cache and was never evicted, the recipient
\* has replied Reject(Cached) to a proposal for it and no MPC network was
\* brokered.
C17_Witness ==
    /\ evicted = {}
    /\ brokered = {}
    /\ mpc_started = {}
    /\ \A id \in Orders :
           id \in DOMAIN order_map /\ order_map[id].state = "Verified"
    /\ \E m \in network_channel :
           /\ m.type = "RejectMatchCandidate"
           /\ m.detail = "Cached"
           /\ ManagedLocally(m.order2)
           /\ order_ready_for_handshake(Book, m.order2)
           /\ handshake_cache[cache_key(m.order1, m.order2)] = "Completed"
           /\ m.request_id \in DOMAIN handshake_state_index

\* C18: the recipient replies Reject(Cached) to a ProposeMatchCandidate only
\* if its cache holds the pair as Completed; a pair that is merely
\* InvisibleUntil(T) is not rejected as Cached.
C18_CachedOnlyIfCompleted ==
    [][\A t \in tasks :
          (/\ IsAt(t, "ProposeMatchCandidate", "check_cache")
           /\ Returns(t)
           /\ RejectMsg(t.job.request_id, t.job.order2, t.job.order1, "Cached")
                  \in network_channel')
              => handshake_cache[cache_key(t.job.order1, t.job.order2)] = "Completed"]_vars

\* The target order of a proposal is schedulable: locally managed, in state
\* Verified, with its witness.
Schedulable(id) ==
    /\ id \in DOMAIN order_map
    /\ order_map[id].local
    /\ order_map[id].state = "Verified"
    /\ order_map[id].valid_commit_witness

\* C19: on an inbound ProposeMatchCandidate whose sender order is Verified
\* locally (the handler is at its check of the target order), the recipient
\* replies Reject(LocalOrderNotReady) whenever the target order is not
\* schedulable, and then creates no handshake record and changes neither
\* cache nor order book; it proceeds only when the target is schedulable.
C19_NotSchedulableIsRejected ==
    [][\A t \in tasks \ tasks' :
          (/\ IsAt(t, "ProposeMatchCandidate", "check_local_order")
           /\ ~lock_panics(Book, t.job.order1))
              => IF Schedulable(t.job.order1)
                 THEN [t EXCEPT !.pc = "new_handshake"] \in tasks'
                 ELSE /\ Returns(t)
                      /\ network_channel' =
                             {RejectMsg(t.job.request_id, t.job.order2, t.job.order1,
                                        "LocalOrderNotReady")}
                      /\ handshake_state_index' = handshake_state_index
                      /\ handshake_cache' = handshake_cache
                      /\ order_map' = order_map]_vars

\* The handler of task t is the one of an inbound proposal, has not passed
\* its own new_handshake, and the state index holds a record under the
\* proposal's request id.
DuplicateRequest(t) ==
    /\ t.job.kind = "ProposeMatchCandidate"
    /\ t.pc \in {"check_peer_order", "check_local_order", "new_handshake"}
    /\ t.job.request_id \in DOMAIN handshake_state_index

C21_AbortRecordsNoMatch ==
    [][\A t \in tasks :
          (IsAt(t, "MpcNetSetup", "running_mpc") /\ Returns(t))
              => /\ handshake_state_index'[t.job.request_id].phase = "Aborted"
                 /\ order_map' = order_map
                 /\ matched_by_handshake' = matched_by_handshake
                 /\ system_bus' = system_bus]_vars

\* C22: a failed send during a handshake (the accepting handler returns
\* without its ExecuteMatch reply) leaves the record of that request id
\* Aborted, not Proposed, and the records of other requests, the cache and
\* the order book as they are.
C22_SendFailureAbortsRecord ==
    [][\A t \in tasks :
          (/\ IsAt(t, "ProposeMatchCandidate", "broker_mpc_net")
           /\ Returns(t)
           /\ ~Accepts(t))
              => /\ handshake_state_index'[t.job.request_id].phase = "Aborted"
                 /\ \A r \in DOMAIN handshake_state_index \ {t.job.request_id} :
                        handshake_state_index'[r] = handshake_state_index[r]
                 /\ handshake_cache' = handshake_cache
                 /\ order_map' = order_map]_vars

\* C23: the jobs of one handshake (same request id) take effect in their
\* arrival order: no two handlers of the same request id are in flight with
\* both past a write to a shared store (the one dequeued later would have
\* written before the earlier one finished).
C23_SameRequestJobsInOrder ==
    LET written(t) ==
            \/ /\ t.job.kind = "ProposeMatchCandidate"
               /\ t.pc \in {"check_cache", "broker_mpc_net"}
            \/ /\ t.job.kind = "ExecuteMatch"
               /\ t.pc = "broker_mpc_net"
            \/ /\ t.job.kind = "MpcNetSetup"
               /\ t.pc \notin {"get_state", "mark_invisible"}
    IN  \A t \in tasks, u \in tasks :
            (/\ t # u
             /\ t.job.request_id # NoRequest
             /\ t.job.request_id = u.job.request_id)
                => ~(written(t) /\ written(u))

\* C24: no executor task holds the lock of one shared store while it is
\* suspended on the lock of another; choose_match_proposal does not keep the
\* cache lock while it awaits the order book lock.
C24_NoLockHeldAcrossSuspension ==
    \A t \in tasks : HeldLocks(t) = {}

C32_SettlementAfterRecording ==
    [][\A t \in tasks, u \in tasks' :
          (/\ t.origin = u.origin
           /\ ~IsAt(t, "MpcNetSetup", "submit_match")
           /\ IsAt(u, "MpcNetSetup", "submit_match"))
            => /\ {u.job.order1, u.job.order2} \subseteq matched_by_handshake'
               /\ \/ handshake_cache'[cache_key(u.job.order1, u.job.order2)]
                         = "Completed"
                  \/ cache_key(u.job.order1, u.job.order2) \in evicted'
               /\ BusEvent("HandshakeCompleted", u.job.order1, u.job.order2)
                      \in system_bus'
               /\ CacheSyncMsg(u.job.order1, u.job.order2)
                      \in network_channel']_vars

\* C32 witness: a task is at submit_match and both orders of its handshake
\* are Matched by the local node.
C32_Witness ==
    \E t \in tasks :
        /\ IsAt(t, "MpcNetSetup", "submit_match")
        /\ \A id \in {t.job.order1, t.job.order2} :
               /\ id \in DOMAIN order_map
               /\ order_map[id].state = "Matched"
               /\ order_map[id].by_local_node

\* C38: a step of the handler of an inbound ExecuteMatch that changes the
\* cache or brokers an MPC channel is taken only when the state index holds
\* a record in phase Proposed under the message's request id whose order
\* pair is the message's (order1, order2).
C38_ExecuteMatchOnlyIfProposed ==
    [][\A t \in tasks \ tasks' :
          (/\ t.job.kind = "ExecuteMatch"
           /\ \/ handshake_cache' # handshake_cache
              \/ brokered' # brokered)
            => /\ t.job.request_id \in DOMAIN handshake_state_index
               /\ handshake_state_index[t.job.request_id].phase = "Proposed"
               /\ { handshake_state_index[t.job.request_id].local_order_id,
                     handshake_state_index[t.job.request_id].peer_order_id }
                      = {t.job.order1, t.job.order2}]_vars

\* The node's own workers take their steps; the peers, the chain and the
\* clock owe nothing.
SpecLive ==
    /\ Spec
    /\ WF_vars(execution_loop)
    /\ WF_vars(TaskStep)
    /\ WF_vars(SchedulerTick)
    /\ WF_vars(HandleNullifierSpentNullify)
    /\ WF_vars(MpcNetReady)

\* The handlers that run on a node to which no peer ever sends a message.
SilentTaskStep ==
    \/ \E t \in tasks : PerformLockCache(t)
    \/ \E t \in tasks : PerformChooseMatchProposal(t)
    \/ \E t \in tasks : PerformSendProposal(t)
    \/ \E t \in tasks : PerformNewHandshake(t)
    \/ \E t \in tasks : HandleMpcShootdown(t)

\* The node with peers that never answer: its scheduler, its executor and
\* its chain listener work, orders are learned, nullifiers are spent.
NextPeerSilent ==
    \/ execution_loop
    \/ SilentTaskStep
    \/ SchedulerTick
    \/ HandleNullifierSpentSend
    \/ HandleNullifierSpentNullify
    \/ LearnOrder
    \/ LearnOrderProof
    \/ LearnOrderWitness

\* Every behaviour of SpecPeerSilent is a behaviour of SpecLive, which owes
\* the peers' messages nothing.
SpecPeerSilent ==
    /\ Init
    /\ [][NextPeerSilent]_vars
    /\ WF_vars(execution_loop)
    /\ WF_vars(SilentTaskStep)
    /\ WF_vars(SchedulerTick)
    /\ WF_vars(HandleNullifierSpentNullify)

\* C6: no handshake record stays in phase Proposed forever, even when the
\* peer never answers: a record that is Proposed eventually leaves the phase.
C6_NoPermanentProposed ==
    \A r \in ReqIds :
        (r \in DOMAIN handshake_state_index
             /\ handshake_state_index[r].phase = "Proposed")
          ~> (r \in DOMAIN handshake_state_index
                 /\ handshake_state_index[r].phase # "Proposed")

\* The node of SpecPeerSilent with a coordinator that sends the cancel
\* signal at any time.
NextCancel ==
    \/ NextPeerSilent
    \/ SendCancel
    \/ SchedulerCancelled
    \/ ExecutorCancelled

SpecCancel == Init /\ [][NextCancel]_vars

\* C14: after the cancel signal is sent, the scheduler, the executor's main
\* loop and the chain event listener each stop within one tick of their loop:
\* none of them runs a second iteration (enqueues or dequeues a job, polls
\* events) after the signal.
C14_LoopsStopWithinOneTick ==
    \A l \in Loops : ticks_after_cancel[l] <= 1

\* C26: when handle_nullifier_spent has returned for NullifierSpent(n), every
\* order of the book whose match_nullifier is n is Cancelled, also when the
\* MpcShootdown job could not be enqueued.
C26_SpentNullifierCancelsOrders ==
    [][\A n \in Nullifiers :
          (/\ listener.pc = "poll" => n \in spent_on_chain' \ spent_on_chain
           /\ listener.pc # "poll" => listener.nullifier = n
           /\ listener'.pc = "poll")
            => \A id \in DOMAIN order_map' :
                   order_map'[id].match_nullifier = n
                       => order_map'[id].state = "Cancelled"]_vars

\* ------------------------------------------------------------------------
\* The chain event listener alone: its polls dispatch Merkle root changes
\* and spent nullifiers.
\* ------------------------------------------------------------------------

NextListener ==
    \/ HandleMerkleRootChanged
    \/ HandleNullifierSpentSend
    \/ HandleNullifierSpentNullify

SpecListener == Init /\ [][NextListener]_vars

\* C25: once the MerkleRootChanged event of block k was handled, no event of
\* a block <= k patches the wallet's path again: the root changes that wrote
\* a sibling of the path follow the earlier ones in strictly increasing
\* block order.
C25_RootChangeAppliedOnce ==
    \A i, j \in 1..Len(merkle_applied) :
        (/\ i < j
         /\ \E h \in 1..TreeHeight :
                compute_authentication_path_coords[h]
                    \in DOMAIN merkle_applied[j][2])
          => merkle_applied[i][1] < merkle_applied[j][1]

\* C27: for the path of every reachable wallet and every map of updated
\* nodes, applying the map twice gives the path that applying it once gives,
\* and a sibling whose coordinate is not a key of the map keeps its value.
C27_PathUpdateIdempotent ==
    \A updated_nodes \in UpdatedNodes :
        LET once == update_wallet_merkle_path(path_siblings, updated_nodes)
        IN  /\ update_wallet_merkle_path(once, updated_nodes) = once
            /\ \A i \in 1..TreeHeight :
                   compute_authentication_path_coords[i] \notin DOMAIN updated_nodes
                       => once[i] = path_siblings[i]

\* C27 witness: a root change patched one sibling of the wallet's path and
\* its map had no entry for the other, which kept its value.
C27_Witness ==
    /\ Len(merkle_applied) = 1
    /\ <<1, 1>> \in DOMAIN merkle_applied[1][2]
    /\ <<2, 1>> \notin DOMAIN merkle_applied[1][2]
    /\ path_siblings = <<1, 0>>

\* ------------------------------------------------------------------------
\* The node with peers that answer a proposal with a rejection, and every
\* worker of the node taking its steps.
\* ------------------------------------------------------------------------

NextPeerRejects ==
    \/ NextPeerSilent
    \/ ReceiveRejectMatchCandidate
    \/ \E t \in tasks : HandleProposalRejection(t)

SpecPeerRejects ==
    /\ Init
    /\ [][NextPeerRejects]_vars
    /\ WF_vars(execution_loop)
    /\ WF_vars(SilentTaskStep)
    /\ WF_vars(\E t \in tasks : HandleProposalRejection(t))
    /\ WF_vars(SchedulerTick)
    /\ WF_vars(HandleNullifierSpentNullify)

\* C29: when the node holds a record for request id r and has received a
\* RejectMatchCandidate for r (its handler runs), or has sent one for r, the
\* state index eventually holds no record for r.
C29_RecordDestroyedAtEnd ==
    \A r \in ReqIds :
        (/\ r \in DOMAIN handshake_state_index
         /\ \/ \E t \in tasks :
                  /\ IsAt(t, "RejectMatchCandidate", "handle_proposal_rejection")
                  /\ t.job.request_id = r
            \/ \E m \in network_channel :
                  m.type = "RejectMatchCandidate" /\ m.request_id = r)
          ~> (r \notin DOMAIN handshake_state_index)

\* C30: whenever a ProposeMatchCandidate with request id r is on the network
\* queue, the state index of the node, which sent it, holds a record for r.
C30_RecordBeforeProposal ==
    \A m \in network_channel :
        m.type = "ProposeMatchCandidate"
            => m.request_id \in DOMAIN handshake_state_index

\* ------------------------------------------------------------------------
\* The listener's polls, page by page
\* ------------------------------------------------------------------------

\* The contract emits an event.
EmitChainEvent ==
    /\ Len(chain_events) < MaxEvents
    /\ \E key \in {"Merkle_root_changed", "Nullifier_spent"} :
           chain_events' = Append(chain_events, key)
    /\ UNCHANGED <<bookVars, execVars, listener, spent_on_chain, nullifier_handled,
                   merkle_last_consistent_block, path_siblings, merkle_applied,
                   pagination_token, events_handled, cancelVars, netVars, matchVars, histVars>>

\* One round of the loop of poll_contract_events: fetch_next_events_page
\* asks for the events after the pagination token and moves the token past
\* the page it got; then handle_event is called on the events of the page in
\* order, and the first error (an RPC error in handle_root_changed, a failed
\* send in handle_nullifier_spent) returns from the poll with `?`.  `ok` is
\* the last event that was handled before the error, or the last of the page.
PollContractEvents ==
    /\ listener.pc = "poll"
    /\ LET first == pagination_token + 1
           last == IF pagination_token + EVENT_CHUNK_SIZE < Len(chain_events)
                   THEN pagination_token + EVENT_CHUNK_SIZE
                   ELSE Len(chain_events)
       IN  /\ pagination_token' = last
           /\ \E ok \in pagination_token..last :
                  events_handled' = events_handled \cup (first..ok)
    /\ UNCHANGED <<bookVars, execVars, listener, spent_on_chain, nullifier_handled,
                   merkle_last_consistent_block, path_siblings, merkle_applied,
                   chain_events, cancelVars, netVars, matchVars, histVars>>

NextPoll ==
    \/ EmitChainEvent
    \/ PollContractEvents

\* execute: the loop polls every EVENTS_POLL_INTERVAL_MS, forever.
SpecPoll == Init /\ [][NextPoll]_vars /\ WF_vars(PollContractEvents)

\* C39: every event that a page of get_events returned to the listener (the
\* pagination token has moved past it) is eventually handled.
C39_ReturnedEventsHandled ==
    \A i \in 1..MaxEvents :
        (i <= pagination_token) ~> (i \in events_handled)

\* ------------------------------------------------------------------------
\* NetworkManager::handle_inbound_pubsub_message
\* ------------------------------------------------------------------------

\* The jobs the handler forwards for a cluster management message: one
\* ClusterJoinRequest for a Join, one AddWalletReplica per replicated wallet.
ClusterJobs(message) ==
    IF message.kind = "Join"
    THEN << [kind |-> "ClusterJoinRequest", wallet_id |-> 0] >>
    ELSE [i \in 1..Len(message.wallets) |->
             [kind |-> "AddWalletReplica", wallet_id |-> message.wallets[i]]]

\* The handler without the three checks: every message is forwarded.
HandleInboundPubsubMessage_unverified ==
    /\ Len(pubsub_handled) < MaxPubsub
    /\ LET Keys == {"k1", "k2"}
           Messages == { [kind |-> "Join", wallets |-> << >>],
                         [kind |-> "Replicated", wallets |-> <<1>>],
                         [kind |-> "Replicated", wallets |-> <<1, 2>>] }
       IN  \E event \in [ cluster_id : Keys \cup {"malformed"},
                          signature : [signer : Keys \cup {"malformed"},
                                       signed : Messages],
                          message : Messages ] :
               /\ pubsub_handled' = Append(pubsub_handled, event)
               /\ gossip_work_queue' =
                      gossip_work_queue \o ClusterJobs(event.message)
    /\ UNCHANGED <<bookVars, execVars, listenerVars, cancelVars, matchVars, histVars>>

\* A PubsubMessage::ClusterManagement{cluster_id, signature, message}
\* arrives.  cluster_id is the bytes of the cluster's public key and
\* signature the bytes of a signature: an ed25519 signature names, in the
\* model, the key that made it and the message it was made over, and
\* "malformed" stands for bytes that do not parse.  get_public_key,
\* Signature::from_bytes and pubkey.verify each return the error with `?`
\* before anything is forwarded.
HandleInboundPubsubMessage ==
    /\ Len(pubsub_handled) < MaxPubsub
    /\ LET Keys == {"k1", "k2"}
           Messages == { [kind |-> "Join", wallets |-> << >>],
                         [kind |-> "Replicated", wallets |-> <<1>>],
                         [kind |-> "Replicated", wallets |-> <<1, 2>>] }
       IN  \E event \in [ cluster_id : Keys \cup {"malformed"},
                          signature : [signer : Keys \cup {"malformed"},
                                       signed : Messages],
                          message : Messages ] :
               /\ pubsub_handled' = Append(pubsub_handled, event)
               /\ IF /\ event.cluster_id # "malformed"
                     /\ event.signature.signer # "malformed"
                     /\ event.signature.signer = event.cluster_id
                     /\ event.signature.signed = event.message
                  THEN gossip_work_queue' =
                           gossip_work_queue \o ClusterJobs(event.message)
                  ELSE UNCHANGED gossip_work_queue
    /\ UNCHANGED <<bookVars, execVars, listenerVars, cancelVars, matchVars, histVars>>

SpecNetwork == Init /\ [][HandleInboundPubsubMessage]_vars

\* C28: the jobs on the gossip server's queue are exactly the jobs of the
\* handled cluster management messages whose signature is a well-formed
\* signature of the message by the key its cluster_id names, in the order of
\* the messages; a message with a malformed or invalid signature has added
\* no job.
C28_ForwardedOnlyIfVerified ==
    LET signed_by_cluster(e) ==
            /\ e.cluster_id \in {"k1", "k2"}
            /\ e.signature = [signer |-> e.cluster_id, signed |-> e.message]
        RECURSIVE forwarded(_)
        forwarded(s) ==
            IF s = << >>
            THEN << >>
            ELSE (IF signed_by_cluster(Head(s))
                  THEN ClusterJobs(Head(s).message)
                  ELSE << >>) \o forwarded(Tail(s))
    IN  gossip_work_queue = forwarded(pubsub_handled)

\* C28 witness: a Replicated message signed by another cluster's key was
\* dropped, and the same message signed by its own cluster's key was
\* forwarded as one job per wallet.
C28_Witness ==
    /\ Len(pubsub_handled) = 2
    /\ pubsub_handled[1].cluster_id = "k1"
    /\ pubsub_handled[1].signature.signer = "k2"
    /\ pubsub_handled[2].cluster_id = "k1"
    /\ pubsub_handled[2].signature.signer = "k1"
    /\ pubsub_handled[2].message.wallets = <<1, 2>>
    /\ Len(gossip_work_queue) = 2

\* ------------------------------------------------------------------------
\* The match circuit (circuits/src/mpc_circuits/match.rs)
\* ------------------------------------------------------------------------

\* The opened values of an AuthenticatedOrder: side is OrderSide as a scalar
\* (Buy = 0, Sell = 1), the prices and the mints are small scalars.
AuthenticatedOrders ==
    [ side       : {0, 1},
      price      : 0..MaxPrice,
      base_mint  : 1..MaxMint,
      quote_mint : 1..MaxMint ]

\* The comparator gadgets, on values that fit their bit width; each returns
\* the boolean as the scalar 0 or 1.
eq(a, b) == IF a = b THEN 1 ELSE 0

ne(a, b) == IF a # b THEN 1 ELSE 0

less_than_equal(a, b) == IF a <= b THEN 1 ELSE 0

\* price_overlap: eq(order1.side, order1.price <= order2.price).
price_overlap(order1, order2) ==
    LET order1_sell == order1.side
        price1_lt_price2 == less_than_equal(order1.price, order2.price)
    IN  eq(order1_sell, price1_lt_price2)

\* compute_match: the product of the four checks (min_amount and
\* execution_price are computed and dropped; aggregate_check is returned).
compute_match(order1, order2) ==
    LET equal_mint1 == eq(order1.base_mint, order2.base_mint)
        equal_mint2 == eq(order1.quote_mint, order2.quote_mint)
        overlap == price_overlap(order1, order2)
        opposite_sides == ne(order1.side, order2.side)
    IN  [ price_overlap   |-> overlap,
          aggregate_check |-> equal_mint1 * equal_mint2 * overlap * opposite_sides ]

\* The two parties run the circuit on their pair of orders.
ComputeMatch ==
    /\ match_orders # << >>
    /\ match_result = << >>
    /\ match_result' = <<compute_match(match_orders[1], match_orders[2])>>
    /\ UNCHANGED <<bookVars, execVars, listenerVars, cancelVars, netVars,
                   match_orders, histVars>>

InitMatch ==
    /\ SetBookInit
    /\ InitNode
    /\ match_orders \in AuthenticatedOrders \X AuthenticatedOrders
    /\ match_result = << >>

SpecMatch == InitMatch /\ [][ComputeMatch]_vars

\* C40: for orders on opposite sides, price_overlap is 1 exactly when the
\* price of the selling order is at most the price of the buying order,
\* whichever of order1 and order2 sells and also for equal prices; and
\* compute_match is 1 only if moreover the base mints and the quote mints
\* are equal and the sides differ.
C40_PriceOverlapIffSellAtMostBuy ==
    match_result # << >> =>
        LET order1 == match_orders[1]
            order2 == match_orders[2]
            sell == IF order1.side = 1 THEN order1 ELSE order2
            buy == IF order1.side = 1 THEN order2 ELSE order1
            res == match_result[1]
        IN  /\ order1.side # order2.side =>
                   (res.price_overlap = 1 <=> sell.price <= buy.price)
            /\ res.aggregate_check = 1 =>
                   /\ sell.price <= buy.price
                   /\ order1.base_mint = order2.base_mint
                   /\ order1.quote_mint = order2.quote_mint
                   /\ order1.side # order2.side

====
